---- MODULE Spec2Model ----
(***************************************************************************)
(* The library "my page" generator (scripts/generate_mypage.py) and the    *)
(* web API that drives it (web_api.py).                                    *)
(*                                                                         *)
(* Text is a sequence of one-character tokens: an ASCII character is       *)
(* itself ("P", " ", "/"), any other character is "u" followed by its code *)
(* point in hex ("u5236" is U+5236).  Python's None is the empty sequence  *)
(* and a present value x is <<x>>.                                         *)
(***************************************************************************)
EXTENDS Integers, Sequences, FiniteSets, TLC

VARIABLES
    processing_status,  \* web_api.py: the global status dict
    threads,            \* web_api.py: the worker threads started by upload_file
    temp_uploads,       \* files under temp_uploads/: path -> TSV content
    response,           \* the last HTTP response sent
    users_json,         \* data/users.json: None or <<registry document>>
    data_dir,           \* whether the directory of users.json exists
    mypages,            \* src/mypage_<id>.html: user id -> what the page shows
    cli,                \* a generate_mypage.py run started from the command line
    call                \* one call of create_user_profile: its input and result

vars == <<processing_status, threads, temp_uploads, response, users_json,
          data_dir, mypages, cli, call>>

None == <<>>
Some(x) == <<x>>

\* the element of a set of one element; Only({F(x) : x \in {e}}) is F(e)
\* with e evaluated once
Only(S) == CHOOSE x \in S : TRUE

(***************************************************************************)
(* Python built-ins on text and lists                                      *)
(***************************************************************************)

UpperCase == <<"A","B","C","D","E","F","G","H","I","J","K","L","M",
               "N","O","P","Q","R","S","T","U","V","W","X","Y","Z">>
LowerCase == <<"a","b","c","d","e","f","g","h","i","j","k","l","m",
               "n","o","p","q","r","s","t","u","v","w","x","y","z">>

\* str.lower() / str.upper() on one character
lower_char(c) ==
    IF \E i \in 1..26 : UpperCase[i] = c
    THEN LowerCase[CHOOSE i \in 1..26 : UpperCase[i] = c]
    ELSE c

upper_char(c) ==
    IF \E i \in 1..26 : LowerCase[i] = c
    THEN UpperCase[CHOOSE i \in 1..26 : LowerCase[i] = c]
    ELSE c

lower(s) == [i \in 1..Len(s) |-> lower_char(s[i])]

\* the characters str.strip() and the regex class \s remove
IsSpace(c) == c \in {" ", "u3000"}

\* s[a:b] with 1-based inclusive bounds, empty when b < a
Slice(s, a, b) == IF b < a THEN <<>> ELSE SubSeq(s, a, b)

\* whether sub occurs in s starting at index i
OccursAt(sub, s, i) ==
    /\ i + Len(sub) - 1 <= Len(s)
    /\ \A k \in 1..Len(sub) : s[i + k - 1] = sub[k]

\* Python's  sub in s
Contains(s, sub) == \E i \in 1..(Len(s) + 1) : OccursAt(sub, s, i)

\* str.strip()
strip(s) ==
    LET keep == {i \in 1..Len(s) : ~IsSpace(s[i])}
    IN  IF keep = {} THEN <<>>
        ELSE Slice(s, CHOOSE i \in keep : \A j \in keep : i <= j,
                      CHOOSE i \in keep : \A j \in keep : j <= i)

\* str.split(sep): the parts between the non-overlapping occurrences of sep,
\* found left to right
RECURSIVE split(_, _)
split(s, sep) ==
    LET hits == {i \in 1..Len(s) : OccursAt(sep, s, i)}
    IN  IF hits = {} THEN <<s>>
        ELSE LET i == CHOOSE h \in hits : \A g \in hits : h <= g
             IN  <<Slice(s, 1, i - 1)>> \o split(Slice(s, i + Len(sep), Len(s)), sep)

\* str(n) for n >= 0: the decimal digits
Digits == <<"0","1","2","3","4","5","6","7","8","9">>
RECURSIVE str_int(_)
str_int(n) ==
    IF n < 10 THEN <<Digits[n + 1]>>
    ELSE str_int(n \div 10) \o <<Digits[(n % 10) + 1]>>

Range(s) == {s[i] : i \in 1..Len(s)}

\* sep.join(list): the items with sep between them
RECURSIVE join(_, _)
join(sep, list) ==
    IF Len(list) = 0 THEN <<>>
    ELSE IF Len(list) = 1 THEN <<list[1]>>
    ELSE <<list[1], sep>> \o join(sep, Tail(list))

(***************************************************************************)
(* MypageGenerator: the classifier                                         *)
(***************************************************************************)

\* self.category_keywords, a dict in declaration order: <<category, keywords>>
category_keywords ==
        <<
           <<"control-theory", <<
                <<"u5236", "u5fa1">>,
                <<"u30ed", "u30d0", "u30b9", "u30c8">>,
                <<"u6700", "u9069", "u5236", "u5fa1">>,
                <<"u975e", "u7dda", "u5f62">>,
                <<"u30b7", "u30b9", "u30c6", "u30e0", "u5236", "u5fa1">> >> >>,
           <<"system-identification", <<
                <<"u30b7", "u30b9", "u30c6", "u30e0", "u540c", "u5b9a">>,
                <<"u540c", "u5b9a">>,
                <<"u90e8", "u5206", "u7a7a", "u9593">>,
                <<"u30d1", "u30e9", "u30e1", "u30fc", "u30bf", "u63a8", "u5b9a">> >> >>,
           <<"data-assimilation", <<
                <<"u30c7", "u30fc", "u30bf", "u540c", "u5316">>,
                <<"u540c", "u5316">>,
                <<"u89b3", "u6e2c">>,
                <<"u30ab", "u30eb", "u30de", "u30f3">> >> >>,
           <<"meteorology", <<
                <<"u6c17", "u8c61">>,
                <<"u5927", "u6c17">>,
                <<"u6c17", "u5019">>,
                <<"u5929", "u6c17">> >> >>,
           <<"numerical-weather", <<
                <<"u6570", "u5024", "u4e88", "u5831">>,
                <<"u4e88", "u5831">>,
                <<"u6570", "u5024">>,
                <<"u6c17", "u8c61", "u4e88", "u6e2c">> >> >>,
           <<"fluid-dynamics", <<
                <<"u6d41", "u4f53">>,
                <<"u52d5", "u529b", "u5b66">>,
                <<"u975e", "u7dda", "u5f62", "u52d5", "u529b">> >> >>,
           <<"mathematics", <<
                <<"u6570", "u5b66">>,
                <<"u7d71", "u8a08">>,
                <<"u4ee3", "u6570">>,
                <<"u5e7e", "u4f55">>,
                <<"u78ba", "u7387">>,
                <<"u7d71", "u8a08", "u529b", "u5b66">> >> >>,
           <<"data-analysis", <<
                <<"u30c7", "u30fc", "u30bf", "u89e3", "u6790">>,
                <<"u30c7", "u30fc", "u30bf", "u30de", "u30a4", "u30cb", "u30f3", "u30b0">>,
                <<"u4f4d", "u76f8", "u7684">>,
                <<"u69cb", "u9020", "u767a", "u898b">> >> >>,
           <<"machine-learning", <<
                <<"u6a5f", "u68b0", "u5b66", "u7fd2">>,
                <<"u6df1", "u5c64", "u5b66", "u7fd2">>,
                <<"A", "I">>,
                <<"u30cb", "u30e5", "u30fc", "u30e9", "u30eb">> >> >>,
           <<"programming", <<
                <<"u30d7", "u30ed", "u30b0", "u30e9", "u30df", "u30f3", "u30b0">>,
                <<"P", "y", "t", "h", "o", "n">>,
                <<"u30a2", "u30eb", "u30b4", "u30ea", "u30ba", "u30e0">> >> >>
        >>

\* the separator of extract_book_info and its "unknown" author
Separator == <<" ", "/", " ">>
Unknown == <<"u4e0d", "u660e">>

\* re.sub(r'\s*;.*$', '', title): cut at the first semicolon together with
\* the white space right before it
cut_semicolon(title) ==
    LET semis == {i \in 1..Len(title) : title[i] = ";"}
    IN  IF semis = {} THEN title
        ELSE LET f == CHOOSE i \in semis : \A j \in semis : i <= j
                 spaces == {k \in 0..(f - 1) :
                               \A j \in (f - k)..(f - 1) : IsSpace(title[j])}
                 k == CHOOSE a \in spaces : \A b \in spaces : b <= a
             IN  Slice(title, 1, f - k - 1)

extract_book_info(title_author) ==
    LET parts == split(title_author, Separator)
        title == strip(parts[1])
        author == IF Len(parts) > 1 THEN strip(parts[2]) ELSE Unknown
    IN  [title |-> cut_semicolon(title), author |-> author]

\* a categorize_book in which a later category overwrites an earlier match
categorize_book_last_match(title, author) ==
    LET text == lower(title \o <<" ">> \o author)
        hit(c) == \E k \in 1..Len(category_keywords[c][2]) :
                      Contains(text, lower(category_keywords[c][2][k]))
        hits == {c \in 1..Len(category_keywords) : hit(c)}
    IN  IF hits = {} THEN "other"
        ELSE category_keywords[CHOOSE c \in hits : \A d \in hits : d <= c][1]

\* the first category, in declaration order, one of whose keywords occurs
\* in the lower-cased "title author"; "other" when there is none
categorize_book(title, author) ==
    LET text == lower(title \o <<" ">> \o author)
        hit(c) == \E k \in 1..Len(category_keywords[c][2]) :
                      Contains(text, lower(category_keywords[c][2][k]))
        hits == {c \in 1..Len(category_keywords) : hit(c)}
    IN  IF hits = {} THEN "other"
        ELSE category_keywords[CHOOSE c \in hits : \A d \in hits : c <= d][1]

generate_cover_url(title, author) ==
    "https://via.placeholder.com/240x360/f0f0f0/666?text=Book+Cover"

(***************************************************************************)
(* MypageGenerator: the reading-pattern analysis and the profile           *)
(*                                                                         *)
(* A DataFrame is the sequence of its rows.  A date cell is                *)
(* [valid, year, month]; pd.to_datetime raises on a cell that is no date.  *)
(***************************************************************************)

\* datetime.now().year
current_year == 2025

\* the rows of df at the indices in keep, in order
pick_rows(df, keep) ==
    [k \in 1..Cardinality(keep) |->
        df[CHOOSE i \in keep : Cardinality({j \in keep : j < i}) = k - 1]]

\* a drop_duplicates that keeps the last row of every book_id
drop_duplicates_keep_last(df, seen) ==
    pick_rows(df, {i \in 1..Len(df) :
                      \A j \in (i + 1)..Len(df) : df[j].book_id # df[i].book_id})

\* df.drop_duplicates(subset=['book_id']): the first row of every book_id
RECURSIVE drop_duplicates(_, _)
drop_duplicates(df, seen) ==
    IF df = <<>> THEN <<>>
    ELSE IF Head(df).book_id \in seen THEN drop_duplicates(Tail(df), seen)
    ELSE <<Head(df)>> \o drop_duplicates(Tail(df), seen \cup {Head(df).book_id})

\* df[df['year'] == current_year].groupby('month').size().to_dict()
monthly_stats_of(df) ==
    LET rows == SelectSeq(df, LAMBDA r : r.checkout_date.year = current_year)
        months == {rows[i].checkout_date.month : i \in 1..Len(rows)}
    IN  [m \in months |->
            Len(SelectSeq(rows, LAMBDA r : r.checkout_date.month = m))]

\* [kind |-> "empty"] is the {} of an empty frame, [kind |-> "raise"] the
\* exception of pd.to_datetime
analyze_reading_patterns(df) ==
    IF df = <<>> THEN [kind |-> "empty"]
    ELSE IF \E i \in 1..Len(df) :
                ~df[i].checkout_date.valid \/ ~df[i].return_date.valid
    THEN [kind |-> "raise"]
    ELSE LET this_year_count ==
                 Len(SelectSeq(df, LAMBDA r : r.checkout_date.year = current_year))
             unique_books == drop_duplicates(df, {})
         IN  [kind |-> "ok",
              total_books |-> Len(unique_books),
              this_year_books |-> this_year_count,
              monthly_stats |-> monthly_stats_of(df),
              unique_books |-> unique_books]

(***************************************************************************)
(* title_author cells of the inputs, and their classification computed     *)
(* once: classify(t) is extract_book_info and categorize_book applied to   *)
(* t, looked up when t is one of these cells.                              *)
(***************************************************************************)

TitleControl ==
    <<"u5236", "u5fa1", "u5de5", "u5b66", " ", "/", " ", "u5c71", "u7530">>
TitleMath ==
    <<"u6570", "u5b66", " ", ";", " ", "u7b2c", "2", "u7248", " ", "/", " ", "u4f50", "u85e4">>
TitleWeather ==
    <<"u6c17", "u8c61", "u4e88", "u6e2c">>
TitleLearning ==
    <<"u6a5f", "u68b0", "u5b66", "u7fd2", " ", "/", " ", "A", " ", "/", " ", "B">>
TitlePython ==
    <<"P", "y", "t", "h", "o", "n", "u5165", "u9580", " ", "/", " ", "u9234", "u6728">>
TitleNovel ==
    <<"u5c0f", "u8aac", " ", "/", " ", "u7530", "u4e2d">>
TitleOptimal ==
    <<"u6700", "u9069", "u5236", "u5fa1", " ", "/", " ", "u5c71", "u7530">>

TitleStatistics ==
    <<"u7d71", "u8a08", "u529b", "u5b66", " ", "/", " ", "u4f0a", "u85e4">>

KnownTitles ==
    {TitleControl, TitleMath, TitleWeather, TitleLearning, TitlePython,
     TitleNovel, TitleOptimal, TitleStatistics}

classify_now(title_author) ==
    LET classified(info) ==
            [title |-> info.title, author |-> info.author,
             category |-> categorize_book(info.title, info.author)]
    IN  classified(extract_book_info(title_author))

Classified == [t \in KnownTitles |-> classify_now(t)]

classify(title_author) ==
    IF title_author \in KnownTitles THEN Classified[title_author]
    ELSE classify_now(title_author)

\* the book_entry of one row of unique_books
book_entry(row) ==
    LET entry(info) ==
            [title |-> info.title,
             author |-> info.author,
             category |-> info.category,
             year |-> str_int(row.checkout_date.year),
             rating |-> 4,
             cover |-> generate_cover_url(info.title, info.author)]
    IN  entry(classify(row.title_author))

\* Counter: <<key, count>> pairs in the order the keys were first counted
RECURSIVE count_categories(_, _)
count_categories(history, counter) ==
    IF history = <<>> THEN counter
    ELSE LET c == Head(history).category
             at == {i \in 1..Len(counter) : counter[i][1] = c}
         IN  count_categories(Tail(history),
                 IF at = {} THEN Append(counter, <<c, 1>>)
                 ELSE [i \in 1..Len(counter) |->
                          IF i \in at THEN <<c, counter[i][2] + 1>>
                          ELSE counter[i]])

\* a most_common that puts the key counted last first among equal counts
RECURSIVE most_common_ties_last(_, _)
most_common_ties_last(counter, n) ==
    IF n = 0 \/ counter = <<>> THEN <<>>
    ELSE LET best == CHOOSE i \in 1..Len(counter) :
                        /\ \A j \in 1..Len(counter) : counter[j][2] <= counter[i][2]
                        /\ \A j \in (i + 1)..Len(counter) : counter[j][2] < counter[i][2]
             rest == [i \in 1..(Len(counter) - 1) |->
                         IF i < best THEN counter[i] ELSE counter[i + 1]]
         IN  <<counter[best]>> \o most_common_ties_last(rest, n - 1)

\* Counter.most_common(n): sorted by count, largest first, equal counts in
\* the order first counted (a stable sort), cut to n
RECURSIVE most_common(_, _)
most_common(counter, n) ==
    IF n = 0 \/ counter = <<>> THEN <<>>
    ELSE LET best == CHOOSE i \in 1..Len(counter) :
                        /\ \A j \in 1..Len(counter) : counter[j][2] <= counter[i][2]
                        /\ \A j \in 1..(i - 1) : counter[j][2] < counter[i][2]
             rest == [i \in 1..(Len(counter) - 1) |->
                         IF i < best THEN counter[i] ELSE counter[i + 1]]
         IN  <<counter[best]>> \o most_common(rest, n - 1)

\* the display names of the top categories the registry's table maps
specializations_of(top_categories, categories) ==
    LET mapped == SelectSeq(top_categories, LAMBDA c : c \in DOMAIN categories)
    IN  [i \in 1..Len(mapped) |-> categories[mapped[i]].name]

\* current_reading is reading_history[0] itself, so the progress value set
\* on it is set on the first element of reading_history
with_progress(entry) ==
    [title |-> entry.title, author |-> entry.author, category |-> entry.category,
     year |-> entry.year, rating |-> entry.rating, cover |-> entry.cover,
     progress |-> <<7, 10>>]

\* [kind |-> "none"]: return None; [kind |-> "raise"]: an exception;
\* [kind |-> "ok", profile |-> the user_profile]
create_user_profile(users_data, user_id, name, position, avatar, df) ==
    LET top_categories(top) == [i \in 1..Len(top) |-> top[i][1]]
        \* the profile, given stats and the reading_history before 'progress'
        profile(analysis, entries) ==
            [id |-> user_id,
             name |-> name,
             nameJa |-> name,
             position |-> position,
             avatar |-> avatar,
             email |-> user_id \o <<"@", "example.com">>,
             specializations |->
                 specializations_of(
                     top_categories(most_common(count_categories(entries, <<>>), 4)),
                     users_data.categories),
             stats |->
               [totalBooks |-> analysis.total_books,
                thisYearBooks |-> analysis.this_year_books,
                publications |-> 0,
                presentations |-> IF analysis.total_books > 10 THEN 1 ELSE 0,
                datasets |-> 0,
                coderepos |-> IF analysis.total_books > 5 THEN 1 ELSE 0,
                awards |-> 0],
             currentReading |->
                 IF entries = <<>> THEN None ELSE Some(with_progress(entries[1])),
             readingHistory |->
                 IF entries = <<>> THEN <<>>
                 ELSE <<with_progress(entries[1])>> \o Tail(entries),
             networkConnections |-> <<>>]
        history(unique_books) ==
            [i \in 1..Len(unique_books) |-> book_entry(unique_books[i])]
        analysed(analysis) ==
            IF analysis.kind = "empty" THEN [kind |-> "none"]
            ELSE IF analysis.kind = "raise" THEN [kind |-> "raise"]
            ELSE [kind |-> "ok",
                  profile |->
                      Only({profile(analysis, entries) :
                               entries \in {history(analysis.unique_books)}})]
    IN  Only({analysed(analysis) : analysis \in {analyze_reading_patterns(df)}})

(***************************************************************************)
(* MypageGenerator: the registry (users.json) and the network graph        *)
(*                                                                         *)
(* The registry document is [users, categories, network]; network is None  *)
(* while the document has no 'network' key.  categories maps a category    *)
(* key to [name, color].                                                   *)
(***************************************************************************)

\* load_users_data: the document of the file, or the empty document when
\* the file is missing
load_users_data(file) ==
    IF file = None
    THEN [users |-> <<>>, categories |-> <<>>, network |-> None]
    ELSE file[1]

\* list(a_set): the elements in the iteration order of the process, which
\* hash_order stands for (a list holding every name once)
list_of_set(S, hash_order) == SelectSeq(hash_order, LAMBDA x : x \in S)

first_two(list) == Slice(list, 1, IF Len(list) < 2 THEN Len(list) ELSE 2)

\* the loop of create_user_connections over self.users_data['users'];
\* existing_edges is computed once, before the loop
RECURSIVE connect_users(_, _, _, _, _)
connect_users(others, user_profile, existing_edges, edges, hash_order) ==
    IF others = <<>> THEN edges
    ELSE
    LET other_user == Head(others)
        common_fields == Range(user_profile.specializations)
                            \cap Range(other_user.specializations)
        edge_tuple == <<user_profile.id, other_user.id>>
        reverse_edge_tuple == <<other_user.id, user_profile.id>>
        new_edge == [from |-> user_profile.id,
                     to |-> other_user.id,
                     label |-> join(", ", first_two(list_of_set(common_fields,
                                                                hash_order))),
                     strength |-> Cardinality(common_fields)]
        added ==
            IF /\ other_user.id # user_profile.id
               /\ common_fields # {}
               /\ edge_tuple \notin existing_edges
               /\ reverse_edge_tuple \notin existing_edges
            THEN Append(edges, new_edge)
            ELSE edges
    IN  connect_users(Tail(others), user_profile, existing_edges, added, hash_order)

\* a create_user_connections that looks for the pair in one orientation only
create_user_connections_one_way(users_data, user_profile, hash_order) ==
    LET network == users_data.network[1]
        existing_edges == {<<network.edges[i].from, network.edges[i].to>> :
                              i \in 1..Len(network.edges)}
        others == SelectSeq(users_data.users,
                            LAMBDA u : <<user_profile.id, u.id>>
                                           \notin existing_edges)
    IN  [users_data EXCEPT
            !.network = Some([network EXCEPT
                !.edges = connect_users(others, user_profile, {},
                                        network.edges, hash_order)])]

create_user_connections(users_data, user_profile, hash_order) ==
    LET network == users_data.network[1]
        existing_edges == {<<network.edges[i].from, network.edges[i].to>> :
                              i \in 1..Len(network.edges)}
    IN  [users_data EXCEPT
            !.network = Some([network EXCEPT
                !.edges = connect_users(users_data.users, user_profile,
                                        existing_edges, network.edges,
                                        hash_order)])]

\* replace the first element of list whose id is item.id, or append item
upsert_by_id(list, item) ==
    LET at == {i \in 1..Len(list) : list[i].id = item.id}
    IN  IF at = {} THEN Append(list, item)
        ELSE LET first == CHOOSE i \in at : \A j \in at : i <= j
             IN  [list EXCEPT ![first] = item]

update_network_data(users_data, user_profile, hash_order) ==
    LET network == IF users_data.network = None
                   THEN [nodes |-> <<>>, edges |-> <<>>]
                   ELSE users_data.network[1]
        new_node ==
            [id |-> user_profile.id,
             label |-> user_profile.name,
             name |-> user_profile.name,
             avatar |-> user_profile.avatar,
             group |-> "student",
             field |-> IF user_profile.specializations # <<>>
                       THEN join(", ", first_two(user_profile.specializations))
                       ELSE <<"u305d", "u306e", "u4ed6">>]
        with_node == [users_data EXCEPT
            !.network = Some([network EXCEPT
                !.nodes = upsert_by_id(network.nodes, new_node)])]
    IN  create_user_connections(with_node, user_profile, hash_order)

\* an add_user_to_database that appends whether or not the id is present
add_user_to_database_append(users_data, user_profile, hash_order) ==
    update_network_data(
        [users_data EXCEPT !.users = Append(users_data.users, user_profile)],
        user_profile, hash_order)

add_user_to_database(users_data, user_profile, hash_order) ==
    LET existing_users == {users_data.users[i].id : i \in 1..Len(users_data.users)}
        users == IF user_profile.id \notin existing_users
                 THEN Append(users_data.users, user_profile)
                 ELSE upsert_by_id(users_data.users, user_profile)
    IN  update_network_data([users_data EXCEPT !.users = users],
                            user_profile, hash_order)

(***************************************************************************)
(* MypageGenerator: the HTML artifact                                      *)
(***************************************************************************)

\* Python's round(num / den): to the nearest integer, a half to the even one
round_ratio(num, den) ==
    LET q == num \div den
        r == num % den
    IN  IF 2 * r < den THEN q
        ELSE IF 2 * r > den THEN q + 1
        ELSE IF q % 2 = 0 THEN q ELSE q + 1

\* the donut chart loop: the mapped categories in the order first counted,
\* at most 4, each with the running total_percent before it
RECURSIVE donut(_, _, _, _)
donut(percentages, categories, total_percent, shown) ==
    IF percentages = <<>> \/ shown >= 4 THEN <<>>
    ELSE LET cat == Head(percentages)[1]
             percentage == Head(percentages)[2]
         IN  IF cat \in DOMAIN categories
             THEN <<[color |-> categories[cat].color,
                     name |-> categories[cat].name,
                     from |-> total_percent,
                     to |-> total_percent + percentage,
                     percentage |-> percentage]>>
                  \o donut(Tail(percentages), categories,
                           total_percent + percentage, shown + 1)
             ELSE donut(Tail(percentages), categories, total_percent, shown)

\* what the page shows of the profile: the numbers and lists put into the
\* template, not its markup
generate_mypage_html(users_data, user_profile) ==
    LET category_stats == count_categories(user_profile.readingHistory, <<>>)
        total_books == Len(user_profile.readingHistory)
        category_percentages ==
            [i \in 1..Len(category_stats) |->
                <<category_stats[i][1],
                  round_ratio(category_stats[i][2] * 100, total_books)>>]
        history == user_profile.readingHistory
    IN  [id |-> user_profile.id,
         name |-> user_profile.name,
         avatar |-> user_profile.avatar,
         position |-> user_profile.position,
         totalBooks |-> user_profile.stats.totalBooks,
         thisYearBooks |-> user_profile.stats.thisYearBooks,
         donut |-> donut(category_percentages, users_data.categories, 0, 0),
         currentReading |-> user_profile.currentReading,
         book_cards |-> Slice(history, 1, IF Len(history) < 9 THEN Len(history) ELSE 9)]

(***************************************************************************)
(* MypageGenerator: the TSV parser                                         *)
(*                                                                         *)
(* A TSV file is [readable, ncols, rows, col8]: whether it can be opened,  *)
(* its number of columns, the first seven cells of its rows (named as in   *)
(* the schema) and, per row, whether the 8th cell is empty (NaN).          *)
(***************************************************************************)

\* a parse_tsv_file that drops an 8th column without looking into it
parse_tsv_file_drops_eighth(file) ==
    IF ~file.readable \/ file.rows = <<>> THEN <<>>
    ELSE IF file.ncols = 7 \/ file.ncols = 8 THEN file.rows ELSE <<>>

\* parse_tsv_file: the rows, or the empty frame
parse_tsv_file(file) ==
    IF ~file.readable \/ file.rows = <<>> THEN <<>>
    ELSE LET dropped == file.ncols = 8
                        /\ \A i \in 1..Len(file.col8) : file.col8[i]
             columns == IF dropped THEN 7 ELSE file.ncols
         IN  IF columns = 7 THEN file.rows ELSE <<>>

(***************************************************************************)
(* One run of generate_mypage.py: main() and process_tsv_file              *)
(*                                                                         *)
(* A run is a record: pc is the next step ("init", "process", "write_html",*)
(* "save", "exit"); success is what process_tsv_file returned, returncode  *)
(* the exit status of the process.  registry_before, html_written and      *)
(* registry_written record what the run found and what it has written.     *)
(***************************************************************************)

start_generator(tsv_path, user_id, name, position, avatar) ==
    [pc |-> "init", tsv_path |-> tsv_path, user_id |-> user_id, name |-> name,
     position |-> position, avatar |-> avatar,
     users_data |-> None, user_profile |-> None, html_content |-> None,
     success |-> None, returncode |-> None, stdout |-> <<>>, stderr |-> <<>>,
     registry_before |-> None, html_written |-> FALSE,
     registry_written |-> FALSE]

\* MypageGenerator(args.users_json): load_users_data
gen_init(g, file) ==
    [g EXCEPT !.pc = "process",
              !.users_data = Some(load_users_data(file)),
              !.registry_before = file]

\* an uncaught exception: the process ends with a traceback and status 1
gen_raise(g) ==
    [g EXCEPT !.pc = "exit", !.returncode = Some(1), !.stderr = <<"Traceback">>]

\* process_tsv_file returned False: main prints the failure and returns
gen_fail(g) ==
    [g EXCEPT !.pc = "exit", !.success = Some(FALSE), !.returncode = Some(0),
              !.stdout = <<"generation failed">>]

default_avatar(user_id) ==
    <<"https://via.placeholder.com/90x90/", upper_char(user_id[1]),
      "/fff?text=", upper_char(user_id[1])>>

\* process_tsv_file up to the HTML content: parse, profile, upsert
gen_process(g, tsv_file, hash_order) ==
    LET avatar == IF g.avatar = None THEN default_avatar(g.user_id)
                  ELSE g.avatar[1]
        generated(users_data, user_profile) ==
            [g EXCEPT !.pc = "write_html",
                      !.users_data = Some(users_data),
                      !.user_profile = Some(user_profile),
                      !.html_content =
                          Some(generate_mypage_html(users_data, user_profile))]
        added(made) ==
            IF made.kind = "raise" THEN gen_raise(g)
            ELSE IF made.kind = "none" THEN gen_fail(g)
            ELSE Only({generated(users_data, made.profile) :
                          users_data \in {add_user_to_database(
                              g.users_data[1], made.profile, hash_order)}})
        parsed(df) ==
            IF df = <<>> THEN gen_fail(g)
            ELSE Only({added(made) :
                          made \in {create_user_profile(g.users_data[1],
                                        g.user_id, g.name, g.position,
                                        avatar, df)}})
    IN  Only({parsed(df) : df \in {parse_tsv_file(tsv_file)}})

\* open(html_filename, 'w') and write
gen_write_html(g) == [g EXCEPT !.pc = "save", !.html_written = TRUE]

write_mypage(pages, g) == (g.user_id :> g.html_content[1]) @@ pages

\* save_users_data and the return to main: open(users_json_path, 'w')
\* raises when the directory of the file does not exist
gen_save(g, dir_exists) ==
    IF dir_exists
    THEN [g EXCEPT !.pc = "exit", !.registry_written = TRUE,
                   !.success = Some(TRUE), !.returncode = Some(0),
                   !.stdout = <<"generation complete">>]
    ELSE gen_raise(g)

(***************************************************************************)
(* web_api.py: the status record and the upload checks                     *)
(*                                                                         *)
(* A message is a sequence of its parts.  A log entry is its level: its    *)
(* timestamp and its text are left out (the text of the latest progress    *)
(* report is the message field).  An absent form field and an empty one    *)
(* are both the empty text.                                                *)
(***************************************************************************)

ALLOWED_EXTENSIONS == {<<"t", "s", "v">>, <<"t", "x", "t">>}

\* '.' in filename and filename.rsplit('.', 1)[1].lower() in ALLOWED_EXTENSIONS
allowed_file(filename) ==
    LET dots == {i \in 1..Len(filename) : filename[i] = "."}
    IN  /\ dots # {}
        /\ LET last == CHOOSE i \in dots : \A j \in dots : j <= i
           IN  lower(Slice(filename, last + 1, Len(filename))) \in ALLOWED_EXTENSIONS

\* werkzeug's secure_filename: path separators become spaces, runs of white
\* space become one "_", characters outside [A-Za-z0-9_.-] are dropped and
\* leading and trailing "." and "_" are stripped
SafeChars ==
    Range(UpperCase) \cup Range(LowerCase) \cup Range(Digits) \cup {"_", ".", "-"}

RECURSIVE join_words(_)
join_words(s) ==
    LET t == strip(s)
        gaps == {i \in 1..Len(t) : IsSpace(t[i])}
    IN  IF gaps = {} THEN t
        ELSE LET g == CHOOSE i \in gaps : \A j \in gaps : i <= j
             IN  Slice(t, 1, g - 1) \o <<"_">> \o join_words(Slice(t, g + 1, Len(t)))

secure_filename(filename) ==
    LET spaced == [i \in 1..Len(filename) |->
                      IF filename[i] = "/" THEN " " ELSE filename[i]]
        kept == SelectSeq(join_words(spaced), LAMBDA c : c \in SafeChars)
        inner == {i \in 1..Len(kept) : kept[i] \notin {".", "_"}}
    IN  IF inner = {} THEN <<>>
        ELSE Slice(kept, CHOOSE i \in inner : \A j \in inner : i <= j,
                         CHOOSE i \in inner : \A j \in inner : j <= i)

log_message(status, message, level) ==
    [status EXCEPT !.logs = Append(@, level)]

update_progress(status, progress, message) ==
    log_message([status EXCEPT !.progress = progress, !.message = message],
                message, "info")

\* the dict a reset puts in place of the status record
reset_status ==
    [is_processing |-> FALSE, progress |-> 0, message |-> <<>>, logs |-> <<>>,
     error |-> None]

\* what is kept of a response: the handler that sent it and its HTTP status
\* (body is the text of its JSON and is not kept)
Response(handler, status, body) ==
    Some([handler |-> handler, status |-> status])

\* an upload_error that does not look at user_id, user_name and position
upload_error_fields_unchecked(status, req) ==
    IF status.is_processing THEN <<"another run is in progress">>
    ELSE IF req.file = None THEN <<"no file selected">>
    ELSE IF req.file[1].filename = <<>> THEN <<"no file selected">>
    ELSE IF ~allowed_file(req.file[1].filename) THEN <<"file type not allowed">>
    ELSE <<>>

\* why upload_file rejects the request, or <<>> when it accepts it
upload_error(status, req) ==
    IF status.is_processing THEN <<"another run is in progress">>
    ELSE IF req.file = None THEN <<"no file selected">>
    ELSE IF req.file[1].filename = <<>> THEN <<"no file selected">>
    ELSE IF ~allowed_file(req.file[1].filename) THEN <<"file type not allowed">>
    ELSE IF req.user_id = <<>> \/ req.user_name = <<>> \/ req.position = <<>>
    THEN <<"required field missing">>
    ELSE <<>>

\* os.path.join(UPLOAD_FOLDER, f"{user_id}_{filename}")
temp_filepath(req) ==
    req.user_id \o <<"_">> \o secure_filename(req.file[1].filename)

\* threading.Thread(target=process_mypage_generation, args=...): pc is the
\* place of the thread in process_mypage_generation, child its subprocess
new_thread(req) ==
    [pc |-> "start", tsv_path |-> temp_filepath(req), user_id |-> req.user_id,
     user_name |-> req.user_name, position |-> req.position,
     email |-> req.email, avatar_url |-> req.avatar_url, child |-> None,
     result |-> None]

\* a thread that has returned holds nothing
finished_thread ==
    [pc |-> "done", tsv_path |-> <<>>, user_id |-> <<>>, user_name |-> <<>>,
     position |-> <<>>, email |-> <<>>, avatar_url |-> <<>>, child |-> None,
     result |-> None]

\* lines 149-172: the status is taken, progress 10 and 20 are reported
begin_processing(status, th) ==
    update_progress(
        update_progress(
            [status EXCEPT !.is_processing = TRUE, !.progress = 0,
                           !.logs = <<>>, !.error = None],
            10, <<"processing started for", th.user_name>>),
        20, <<"running generate_mypage.py">>)

\* the cmd of subprocess.run: --avatar only when avatar_url is not empty
child_of(th) ==
    start_generator(th.tsv_path, th.user_id, th.user_name, th.position,
                    IF th.avatar_url # <<>> THEN Some(th.avatar_url) ELSE None)

\* result = subprocess.run(...): what the thread keeps of the subprocess
completed_process(g) ==
    [returncode |-> g.returncode[1], stdout |-> g.stdout, stderr |-> g.stderr]

\* lines 182-203: the status after the subprocess has returned
report_result(status, th, result, page_exists, registry_exists) ==
    LET s60 == update_progress(status, 60, <<"script finished">>)
    IN  IF result.returncode = 0
        THEN LET s80 == log_message(
                            update_progress(s60, 80, <<"generation succeeded">>),
                            result.stdout, "success")
                 s90 == IF page_exists
                        THEN update_progress(s80, 90,
                                 <<"page file found", th.user_id>>)
                        ELSE s80
                 s95 == IF registry_exists
                        THEN update_progress(s90, 95, <<"users.json updated">>)
                        ELSE s90
             IN  update_progress(s95, 100,
                                 <<"page generated for", th.user_name>>)
        ELSE update_progress(
                 log_message([s60 EXCEPT !.error = Some(result.stderr)],
                             <<"error">> \o result.stderr, "error"),
                 100, <<"page generation failed">>)

\* an except block that records the error and reports no progress
report_exception_no_progress(status, e) ==
    log_message([status EXCEPT !.error = Some(e)],
                <<"unexpected error">> \o e, "error")

\* lines 205-208: except Exception
report_exception(status, e) ==
    update_progress(
        log_message([status EXCEPT !.error = Some(e)],
                    <<"unexpected error">> \o e, "error"),
        100, <<"error while processing">>)

\* a dict without the key
without(f, key) == [k \in DOMAIN f \ {key} |-> f[k]]

\* delete_user on an existing registry file: the users without the id
remaining_users(users_data, user_id_to_delete) ==
    SelectSeq(users_data.users, LAMBDA u : u.id # user_id_to_delete)

(***************************************************************************)
(* Inputs: checkout rows, category tables                                  *)
(***************************************************************************)

Date(y, m) == [valid |-> TRUE, year |-> y, month |-> m]
BadDate == [valid |-> FALSE, year |-> 0, month |-> 0]

Row(id, book_id, checkout_date, title_author) ==
    [id |-> id, book_id |-> book_id, checkout_date |-> checkout_date,
     return_date |-> checkout_date, location |-> "lib",
     classification |-> "000", title_author |-> title_author]

\* book 101 is checked out twice in the current year, under two titles
SampleRows ==
    <<Row(1, 101, Date(current_year, 4), TitleControl),
      Row(2, 101, Date(current_year, 5), TitleMath),
      Row(3, 102, Date(current_year - 1, 4), TitleStatistics),
      Row(4, 103, Date(current_year, 6), TitleLearning),
      Row(5, 104, Date(current_year - 1, 7), TitlePython),
      Row(6, 105, Date(current_year, 8), TitleNovel)>>

CategoryInfo(name, color) == [name |-> name, color |-> color]

EmptyDict == [k \in {} |-> None]

\* a table that maps the topical categories of the sample titles, not 'other'
CategoriesTopical ==
    ("control-theory" :> CategoryInfo("Control", "#e74c3c"))
    @@ ("mathematics" :> CategoryInfo("Mathematics", "#3498db"))
    @@ ("meteorology" :> CategoryInfo("Meteorology", "#2ecc71"))
    @@ ("machine-learning" :> CategoryInfo("Machine Learning", "#9b59b6"))
    @@ ("programming" :> CategoryInfo("Programming", "#f1c40f"))

\* a table that maps 'other' and leaves three topical categories out
CategoriesSparse ==
    ("control-theory" :> CategoryInfo("Control", "#e74c3c"))
    @@ ("programming" :> CategoryInfo("Programming", "#f1c40f"))
    @@ ("other" :> CategoryInfo("Other", "#95a5a6"))

CategoryTables == {CategoriesTopical, CategoriesSparse}

MaxRows == 5

\* the frames of at most MaxRows sample rows
Frames ==
    UNION {[1..n -> Range(SampleRows)] : n \in 0..MaxRows}

\* TSV files: seven columns unless said otherwise
TsvFile(ncols, rows, col8) ==
    [readable |-> TRUE, ncols |-> ncols, rows |-> rows, col8 |-> col8]

Unreadable == [readable |-> FALSE, ncols |-> 0, rows |-> <<>>, col8 |-> <<>>]

\* the files a run can be given, by name
SampleFiles ==
    [control |->
        \* a control book and a Python book, every line ending in a tab
        TsvFile(8, <<Row(1, 201, Date(current_year, 4), TitleControl),
                     Row(2, 202, Date(current_year, 5), TitlePython)>>,
                <<TRUE, TRUE>>),
     statistics |->
        TsvFile(7, <<Row(1, 204, Date(current_year, 6), TitleStatistics)>>, <<>>),
     five_columns |->
        TsvFile(5, <<Row(1, 201, Date(current_year, 4), TitleControl)>>, <<>>),
     bad_date |->
        TsvFile(7, <<Row(1, 201, BadDate, TitleControl)>>, <<>>),
     eight_filled |->
        \* eight columns, the 8th cell of the second row is not empty
        TsvFile(8, <<Row(1, 201, Date(current_year, 4), TitleControl),
                     Row(2, 202, Date(current_year, 5), TitlePython)>>,
                <<TRUE, FALSE>>),
     nine_columns |->
        TsvFile(9, <<Row(1, 201, Date(current_year, 4), TitleControl)>>, <<TRUE>>),
     empty |-> TsvFile(7, <<>>, <<>>),
     unreadable |-> Unreadable]

\* the category table of the registry the runs start from; 'programming'
\* and 'other' are not in it
CategoriesRegistry ==
    ("control-theory" :> CategoryInfo("Control", "#e74c3c"))
    @@ ("mathematics" :> CategoryInfo("Mathematics", "#3498db"))

\* a registry with its category table and no user yet
FreshRegistry ==
    [users |-> <<>>, categories |-> CategoriesRegistry, network |-> None]

NumUsers == 2
UserIdOf == <<<<"a", "1">>, <<"y", "2">>, <<"t", "3">>, <<"h", "4">>>>
UserIds == {UserIdOf[i] : i \in 1..NumUsers}

\* the --avatar each user passes: the first one a URL, the others none
AvatarOf(user_id) ==
    IF user_id = UserIdOf[1] THEN Some(<<"avatar.png">>) ELSE None

\* the orders in which a process may iterate a set of display names
HashOrders(categories) ==
    LET names == {categories[k].name : k \in DOMAIN categories}
    IN  {s \in [1..Cardinality(names) -> names] : Range(s) = names}

IdleStatus ==
    [is_processing |-> FALSE, progress |-> 0, message |-> <<>>, logs |-> <<>>,
     error |-> None]

NoCall == [df |-> <<>>, categories |-> EmptyDict, result |-> None]

(***************************************************************************)
(* SpecGen: generate_mypage.py run from the command line, one run after    *)
(* the other, as test_system.py runs it                                    *)
(***************************************************************************)

InitGen ==
    /\ processing_status = IdleStatus
    /\ threads = <<>>
    /\ temp_uploads = EmptyDict
    /\ response = None
    /\ data_dir \in BOOLEAN
    /\ users_json \in (IF data_dir THEN {None, Some(FreshRegistry)} ELSE {None})
    /\ mypages = EmptyDict
    /\ cli = None
    /\ call = NoCall

\* python3 scripts/generate_mypage.py <tsv> --user-id .. --name .. --position ..
CliStart(tsv_path, user_id, avatar) ==
    /\ IF cli = None THEN TRUE ELSE cli[1].pc = "exit"
    /\ cli' = Some(start_generator(tsv_path, user_id, <<"Amane Kubo">>,
                                  <<"M2">>, avatar))
    /\ UNCHANGED <<processing_status, threads, temp_uploads, response,
                   users_json, data_dir, mypages, call>>

CliInit ==
    /\ cli # None /\ cli[1].pc = "init"
    /\ cli' = Some(gen_init(cli[1], users_json))
    /\ UNCHANGED <<processing_status, threads, temp_uploads, response,
                   users_json, data_dir, mypages, call>>

CliProcess ==
    /\ cli # None /\ cli[1].pc = "process"
    /\ \E hash_order \in HashOrders(cli[1].users_data[1].categories) :
           cli' = Some(gen_process(cli[1], SampleFiles[cli[1].tsv_path],
                                   hash_order))
    /\ UNCHANGED <<processing_status, threads, temp_uploads, response,
                   users_json, data_dir, mypages, call>>

CliWriteHtml ==
    /\ cli # None /\ cli[1].pc = "write_html"
    /\ mypages' = write_mypage(mypages, cli[1])
    /\ cli' = Some(gen_write_html(cli[1]))
    /\ UNCHANGED <<processing_status, threads, temp_uploads, response,
                   users_json, data_dir, call>>

CliSave ==
    /\ cli # None /\ cli[1].pc = "save"
    /\ users_json' = IF data_dir THEN cli[1].users_data ELSE users_json
    /\ cli' = Some(gen_save(cli[1], data_dir))
    /\ UNCHANGED <<processing_status, threads, temp_uploads, response,
                   data_dir, mypages, call>>

NextGen ==
    \/ \E tsv_path \in DOMAIN SampleFiles, user_id \in UserIds :
           CliStart(tsv_path, user_id, AvatarOf(user_id))
    \/ CliInit
    \/ CliProcess
    \/ CliWriteHtml
    \/ CliSave

SpecGen == InitGen /\ [][NextGen]_vars

(***************************************************************************)
(* SpecProfile: create_user_profile on every frame and category table      *)
(***************************************************************************)

InitProfile ==
    /\ processing_status = IdleStatus
    /\ threads = <<>>
    /\ temp_uploads = EmptyDict
    /\ response = None
    /\ users_json = None
    /\ data_dir = TRUE
    /\ mypages = EmptyDict
    /\ cli = None
    /\ call \in {[df |-> d, categories |-> c, result |-> None] :
                     d \in Frames, c \in CategoryTables}

ProfileCall ==
    /\ call.result = None
    /\ call' = [call EXCEPT !.result = Some(create_user_profile(
                    [users |-> <<>>, categories |-> call.categories,
                     network |-> None],
                    <<"u", "1">>, <<"Amane Kubo">>, <<"M2">>,
                    <<"avatar.png">>, call.df))]
    /\ UNCHANGED <<processing_status, threads, temp_uploads, response,
                   users_json, data_dir, mypages, cli>>

NextProfile == ProfileCall

SpecProfile == InitProfile /\ [][NextProfile]_vars

(***************************************************************************)
(* Spec: the web API.  Requests arrive in any order; every upload that is  *)
(* accepted starts a thread, and the thread runs generate_mypage.py as a   *)
(* subprocess whose file accesses interleave with the other handlers.      *)
(***************************************************************************)

\* the threads upload_file may start in one behaviour
MaxUploads == 2

UploadName == <<"l", "o", "g", ".", "T", "S", "V">>

Request(file, user_id, user_name, position, avatar_url) ==
    [file |-> file, user_id |-> user_id, user_name |-> user_name,
     position |-> position, email |-> <<>>, avatar_url |-> avatar_url]

Upload(filename, content) == Some([filename |-> filename, content |-> content])

AvatarUrlOf(user_id) ==
    IF AvatarOf(user_id) = None THEN <<>> ELSE AvatarOf(user_id)[1]

\* complete requests: every user with every file the admin page may send
WebFiles == {"control", "five_columns", "bad_date"}

CompleteRequests ==
    {Request(Upload(UploadName, SampleFiles[f]), u, <<"Amane Kubo">>, <<"M2">>,
             AvatarUrlOf(u)) : f \in WebFiles, u \in UserIds}

\* requests that lack something upload_file asks for
IncompleteRequests ==
    LET ok == Upload(UploadName, SampleFiles["control"])
        u == UserIdOf[1]
    IN  {Request(None, u, <<"Amane Kubo">>, <<"M2">>, <<>>),
         Request(Upload(<<>>, SampleFiles["control"]), u, <<"Amane Kubo">>,
                 <<"M2">>, <<>>),
         Request(Upload(<<"a", ".", "e", "x", "e">>, SampleFiles["control"]), u,
                 <<"Amane Kubo">>, <<"M2">>, <<>>),
         Request(ok, <<>>, <<"Amane Kubo">>, <<"M2">>, <<>>),
         Request(ok, u, <<"Amane Kubo">>, <<>>, <<>>)}

UploadRequests == CompleteRequests \cup IncompleteRequests

Init ==
    /\ processing_status = IdleStatus
    /\ threads = <<>>
    /\ temp_uploads = EmptyDict
    /\ response = None
    /\ data_dir = TRUE
    /\ users_json \in {None, Some(FreshRegistry)}
    /\ mypages = EmptyDict
    /\ cli = None
    /\ call = NoCall

\* POST /api/upload
upload_file(req) ==
    /\ IF upload_error(processing_status, req) # <<>>
       THEN /\ response' = Response("upload_file", 400,
                                    upload_error(processing_status, req))
            /\ UNCHANGED <<threads, temp_uploads>>
       ELSE /\ Len(threads) < MaxUploads
            /\ temp_uploads' = (temp_filepath(req) :> req.file[1].content)
                                   @@ temp_uploads
            /\ threads' = Append(threads, new_thread(req))
            /\ response' = Response("upload_file", 200, <<"started">>)
    /\ UNCHANGED <<processing_status, users_json, data_dir, mypages, cli, call>>

\* process_mypage_generation, lines 149-180: the status is taken and
\* subprocess.run starts generate_mypage.py
process_begin(w) ==
    /\ threads[w].pc = "start"
    /\ processing_status' = begin_processing(processing_status, threads[w])
    /\ threads' = [threads EXCEPT ![w].pc = "child",
                                  ![w].child = Some(child_of(threads[w]))]
    /\ UNCHANGED <<temp_uploads, response, users_json, data_dir, mypages,
                   cli, call>>

\* lines 149-180 when subprocess.run raises (the interpreter cannot be
\* started), and the except block, lines 205-208
process_begin_error(w) ==
    /\ threads[w].pc = "start"
    /\ processing_status' =
           report_exception(begin_processing(processing_status, threads[w]),
                            <<"OSError">>)
    /\ threads' = [threads EXCEPT ![w].pc = "finally"]
    /\ UNCHANGED <<temp_uploads, response, users_json, data_dir, mypages,
                   cli, call>>

Child(w) == threads[w].child[1]

Running(w, step) == threads[w].pc = "child" /\ Child(w).pc = step

\* the uploaded file, if it is still there
read_upload(path) ==
    IF path \in DOMAIN temp_uploads THEN temp_uploads[path] ELSE Unreadable

\* the subprocess up to the HTML content: it reads users.json and the
\* uploaded file and works on its own copies
child_process(w) ==
    /\ Running(w, "init")
    /\ \E hash_order \in HashOrders(load_users_data(users_json).categories) :
           threads' = [threads EXCEPT ![w].child =
               Some(gen_process(gen_init(Child(w), users_json),
                                read_upload(threads[w].tsv_path), hash_order))]
    /\ UNCHANGED <<processing_status, temp_uploads, response, users_json,
                   data_dir, mypages, cli, call>>

child_write_html(w) ==
    /\ Running(w, "write_html")
    /\ mypages' = write_mypage(mypages, Child(w))
    /\ threads' = [threads EXCEPT ![w].child = Some(gen_write_html(Child(w)))]
    /\ UNCHANGED <<processing_status, temp_uploads, response, users_json,
                   data_dir, cli, call>>

child_save(w) ==
    /\ Running(w, "save")
    /\ users_json' = IF data_dir THEN Child(w).users_data ELSE users_json
    /\ threads' = [threads EXCEPT ![w].child = Some(gen_save(Child(w), data_dir))]
    /\ UNCHANGED <<processing_status, temp_uploads, response, data_dir,
                   mypages, cli, call>>

\* process_mypage_generation, lines 175-203: the subprocess has ended
process_result(w) ==
    /\ Running(w, "exit")
    /\ processing_status' =
           report_result(processing_status, threads[w],
                         completed_process(Child(w)),
                         threads[w].user_id \in DOMAIN mypages,
                         users_json # None)
    /\ threads' = [threads EXCEPT ![w].pc = "finally",
                                  ![w].child = None,
                                  ![w].result = Some(completed_process(Child(w)))]
    /\ UNCHANGED <<temp_uploads, response, users_json, data_dir, mypages,
                   cli, call>>

\* finally: os.remove(tsv_path) and its log line, or pass when it raises
process_cleanup(w) ==
    /\ threads[w].pc = "finally"
    /\ IF threads[w].tsv_path \in DOMAIN temp_uploads
       THEN /\ temp_uploads' = without(temp_uploads, threads[w].tsv_path)
            /\ processing_status' =
                   log_message(processing_status,
                               <<"temp file removed">> \o threads[w].tsv_path,
                               "info")
       ELSE UNCHANGED <<temp_uploads, processing_status>>
    /\ threads' = [threads EXCEPT ![w].pc = "sleep"]
    /\ UNCHANGED <<response, users_json, data_dir, mypages, cli, call>>

\* finally: after time.sleep(2), is_processing = False
process_release(w) ==
    /\ threads[w].pc = "sleep"
    /\ processing_status' = [processing_status EXCEPT !.is_processing = FALSE]
    /\ threads' = [threads EXCEPT ![w] = finished_thread]
    /\ UNCHANGED <<temp_uploads, response, users_json, data_dir, mypages,
                   cli, call>>

\* POST /api/user/delete
delete_user(user_id_to_delete) ==
    /\ IF user_id_to_delete = <<>>
       THEN /\ response' = Response("delete_user", 400, <<"no user id given">>)
            /\ UNCHANGED <<users_json, mypages>>
       ELSE IF /\ users_json # None
               /\ Len(remaining_users(users_json[1], user_id_to_delete))
                      >= Len(users_json[1].users)
       THEN /\ response' = Response("delete_user", 404, <<"user not found">>)
            /\ UNCHANGED <<users_json, mypages>>
       ELSE /\ users_json' =
                   IF users_json = None THEN None
                   ELSE Some([users_json[1] EXCEPT !.users =
                            remaining_users(users_json[1], user_id_to_delete)])
            /\ mypages' = without(mypages, user_id_to_delete)
            /\ response' = Response("delete_user", 200,
                                    <<"deleted">> \o user_id_to_delete)
    /\ UNCHANGED <<processing_status, threads, temp_uploads, data_dir, cli, call>>

\* POST /api/reset
reset_processing ==
    /\ processing_status' = reset_status
    /\ response' = Response("reset_processing", 200, <<"status reset">>)
    /\ UNCHANGED <<threads, temp_uploads, users_json, data_dir, mypages,
                   cli, call>>

Next ==
    \/ \E req \in UploadRequests : upload_file(req)
    \/ \E w \in DOMAIN threads :
           \/ process_begin(w)
           \/ process_begin_error(w)
           \/ child_process(w)
           \/ child_write_html(w)
           \/ child_save(w)
           \/ process_result(w)
           \/ process_cleanup(w)
           \/ process_release(w)
    \/ \E user_id \in UserIds \cup {<<>>} : delete_user(user_id)
    \/ reset_processing

Spec == Init /\ [][Next]_vars

(***************************************************************************)
(* Properties of create_user_profile (SpecProfile)                         *)
(***************************************************************************)

Returned == call.result # None /\ call.result[1].kind = "ok"
Profile == call.result[1].profile

\* the indices of the rows that are the first of their book_id
FirstRows(df) ==
    {j \in 1..Len(df) : \A k \in 1..(j - 1) : df[k].book_id # df[j].book_id}

\* C8: readingHistory holds one entry per distinct bookId, built from the
\* first row carrying that bookId, in first-occurrence order; totalBooks is
\* the number of distinct bookIds and the length of readingHistory.
C8_HistoryIsFirstRows ==
    Returned =>
        LET df == call.df
            h == Profile.readingHistory
            firsts == FirstRows(df)
            books == {df[j].book_id : j \in 1..Len(df)}
        IN  /\ Len(h) = Cardinality(books)
            /\ Profile.stats.totalBooks = Cardinality(books)
            /\ \A j \in firsts :
                   LET i == Cardinality({k \in firsts : k < j}) + 1
                       info == classify(df[j].title_author)
                   IN  /\ h[i].title = info.title
                       /\ h[i].author = info.author
                       /\ h[i].category = info.category
                       /\ h[i].year = str_int(df[j].checkout_date.year)

\* a frame of three or more rows in which a bookId comes twice, under two
\* different titles and years apart, has been turned into a profile
C8_Witness ==
    /\ Returned
    /\ Len(call.df) >= 3
    /\ \E i, j \in 1..Len(call.df) :
           /\ i < j
           /\ call.df[i].book_id = call.df[j].book_id
           /\ classify(call.df[i].title_author).category
                  # classify(call.df[j].title_author).category
    /\ Len(Profile.readingHistory) < Len(call.df)

\* C9: thisYearBooks counts the unique books checked out in the current
\* year, so it never exceeds totalBooks.
C9_ThisYearCountsUniqueBooks ==
    Returned =>
        LET df == call.df
            this_year == {j \in FirstRows(df) :
                             df[j].checkout_date.year = current_year}
        IN  /\ Profile.stats.thisYearBooks = Cardinality(this_year)
            /\ Profile.stats.thisYearBooks <= Profile.stats.totalBooks

\* C10: specializations are the display names of the mapped categories among
\* the 4 most frequent keys, most frequent first, equal counts in the order
\* first met; an unmapped key among the 4 is skipped and not replaced.
C10_SpecializationsAreTopMapped ==
    Returned =>
        LET h == Profile.readingHistory
            spec == Profile.specializations
            table == call.categories
            cats == {h[i].category : i \in 1..Len(h)}
            cnt(c) == Cardinality({i \in 1..Len(h) : h[i].category = c})
            first(c) == CHOOSE i \in 1..Len(h) :
                           /\ h[i].category = c
                           /\ \A k \in 1..(i - 1) : h[k].category # c
            Before(c, d) == \/ cnt(c) > cnt(d)
                            \/ cnt(c) = cnt(d) /\ first(c) < first(d)
            top == {c \in cats : Cardinality({d \in cats : Before(d, c)}) < 4}
            mapped == top \cap DOMAIN table
        IN  /\ Len(spec) <= 4
            /\ Len(spec) = Cardinality(mapped)
            /\ \A c \in mapped :
                   spec[Cardinality({d \in mapped : Before(d, c)}) + 1]
                       = table[c].name

\* a profile of five categories whose 4 most frequent hold an unmapped key
\* while the fifth is mapped: fewer than 4 names, the fifth not among them
C10_Witness ==
    /\ Returned
    /\ LET h == Profile.readingHistory
           cats == {h[i].category : i \in 1..Len(h)}
           top == {h[i].category : i \in 1..(IF Len(h) < 4 THEN Len(h) ELSE 4)}
       IN  /\ Cardinality(cats) = 5
           /\ Len(h) = 5
           /\ top \ DOMAIN call.categories # {}
           /\ (cats \ top) \cap DOMAIN call.categories # {}
           /\ Len(Profile.specializations) \in 1..3

(***************************************************************************)
(* Properties of the registry under generation runs (SpecGen)              *)
(***************************************************************************)

CliRun == cli[1]

\* the run has upserted its profile into its copy of the registry
CliUpserted == cli # None /\ CliRun.user_profile # None

\* the registry documents there are: the file and the run's copy of it
Registries ==
    (IF users_json = None THEN {} ELSE {users_json[1]})
    \cup (IF CliUpserted THEN {CliRun.users_data[1]} ELSE {})

EdgesOf(doc) == IF doc.network = None THEN <<>> ELSE doc.network[1].edges

\* the edges of doc between a and b, in either orientation
EdgesBetween(doc, a, b) ==
    {i \in 1..Len(EdgesOf(doc)) :
        {EdgesOf(doc)[i].from, EdgesOf(doc)[i].to} = {a, b}}

Shared(p, q) == Range(p.specializations) \cap Range(q.specializations)

\* C3: when a run has ended, the artifact and the registry file have both
\* been written, or neither has and the registry file is as the run found it.
C3_ArtifactAndRegistryTogether ==
    (cli # None /\ CliRun.pc = "exit") =>
        \/ CliRun.html_written /\ CliRun.registry_written
        \/ /\ ~CliRun.html_written
           /\ ~CliRun.registry_written
           /\ users_json = CliRun.registry_before

\* C4: two users of a registry whose specializations share a name have
\* exactly one edge between them, and no pair of users has two edges, in
\* whichever orientation and after any number of upserts.
C4_OneEdgePerPair ==
    \A doc \in Registries :
        \A i, j \in 1..Len(doc.users) :
            i < j =>
                LET n == Cardinality(EdgesBetween(doc, doc.users[i].id,
                                                  doc.users[j].id))
                IN  /\ n <= 1
                    /\ Shared(doc.users[i], doc.users[j]) # {} => n = 1

\* a user already in the file, with an edge from another user to it, has
\* been upserted again with a profile that shares a name with that user
C4_Witness ==
    /\ CliUpserted
    /\ CliRun.pc = "write_html"
    /\ users_json # None
    /\ \E i, j \in 1..Len(users_json[1].users) :
           LET u == users_json[1].users[i]
               v == users_json[1].users[j]
           IN  /\ u.id = CliRun.user_id
               /\ v.id # u.id
               /\ \E e \in EdgesBetween(users_json[1], u.id, v.id) :
                      EdgesOf(users_json[1])[e].from = v.id
               /\ Shared(CliRun.user_profile[1], v) # {}
               /\ Cardinality(EdgesBetween(CliRun.users_data[1], u.id, v.id)) = 1

\* C5: two users of a registry whose specializations share no name have no
\* edge between them.
C5_NoEdgeWithoutSharedName ==
    \A doc \in Registries :
        \A i, j \in 1..Len(doc.users) :
            (i < j /\ Shared(doc.users[i], doc.users[j]) = {}) =>
                EdgesBetween(doc, doc.users[i].id, doc.users[j].id) = {}

\* C6: the upsert of a run replaces the user of the same id at its position,
\* or appends; every other user stays where it was, and one user has the id.
C6_UpsertFrame ==
    [][(cli # None /\ CliRun.pc = "process" /\ cli'[1].pc = "write_html") =>
          LET before == CliRun.users_data[1].users
              after == cli'[1].users_data[1].users
              p == cli'[1].user_profile[1]
              at == {i \in 1..Len(before) : before[i].id = p.id}
          IN  /\ IF at = {} THEN after = Append(before, p)
                 ELSE /\ Len(after) = Len(before)
                      /\ \A i \in 1..Len(before) :
                             after[i] = IF i \in at THEN p ELSE before[i]
              /\ Cardinality({i \in 1..Len(after) : after[i].id = p.id}) = 1
      ]_vars

\* the first of two users in the file has been upserted with another profile
\* and is still first of two
C6_Witness ==
    /\ CliUpserted
    /\ CliRun.pc = "write_html"
    /\ users_json # None
    /\ Len(users_json[1].users) = 2
    /\ users_json[1].users[1].id = CliRun.user_id
    /\ users_json[1].users[1] # CliRun.user_profile[1]
    /\ Len(CliRun.users_data[1].users) = 2
    /\ CliRun.users_data[1].users[1] = CliRun.user_profile[1]

(***************************************************************************)
(* Properties of the web API (Spec)                                        *)
(***************************************************************************)

\* the threads that run process_mypage_generation and have not returned
ActiveWorkers == {w \in DOMAIN threads : threads[w].pc # "done"}

\* C1: at most one generation worker is active at any time, whatever the
\* order of uploads, resets and worker steps: an upload that arrives while
\* an earlier worker has not finished starts no second worker.
C1_AtMostOneWorker == Cardinality(ActiveWorkers) <= 1

\* C2: when the run of a worker fails on an input-format error (the script
\* reports that process_tsv_file returned False), the status the worker
\* leaves is at progress 100 with a non-null error and the failure message.
C2_FormatFailureIsReported ==
    [][\A w \in DOMAIN threads :
          (process_result(w) /\ Child(w).success = Some(FALSE)) =>
              /\ processing_status'.progress = 100
              /\ processing_status'.error # None
              /\ processing_status'.message = <<"page generation failed">>
      ]_vars

\* the ids of the users in the registry file; none when there is no file
RegisteredIds(file) ==
    IF file = None THEN {}
    ELSE {file[1].users[i].id : i \in 1..Len(file[1].users)}

\* C7: delete_user of an id among the registry's users removes the user and
\* its page and answers success; of an id not among them, also when the
\* registry file does not exist, it answers not-found and changes nothing.
C7_DeleteUserReportsAbsentId ==
    [][\A id \in UserIds :
          delete_user(id) =>
              IF id \in RegisteredIds(users_json)
              THEN /\ response'[1].status = 200
                   /\ id \notin RegisteredIds(users_json')
                   /\ id \notin DOMAIN mypages'
              ELSE /\ response'[1].status = 404
                   /\ users_json' = users_json
      ]_vars

(***************************************************************************)
(* SpecCategorize: categorize_book on titles and authors put together      *)
(* from keywords of the table, in several spellings, and other words       *)
(***************************************************************************)

\* the words a title is made of
MaxWords == 2

Words ==
    {<<"u5236", "u5fa1">>,                    \* a control-theory keyword
     <<"u6c17", "u8c61", "u4e88", "u6e2c">>,  \* meteorology, numerical-weather
     <<"u4e88", "u5831">>,                    \* a numerical-weather keyword
     <<"u7d71", "u8a08">>,                    \* a mathematics keyword
     <<"a", "i">>,                            \* machine-learning's "AI"
     <<"P", "Y", "T", "H", "O", "N">>,        \* programming's "Python"
     <<"u5165", "u9580">>,                    \* no keyword
     <<"A">>}                                 \* no keyword by itself

RECURSIVE concat(_)
concat(words) ==
    IF words = <<>> THEN <<>> ELSE Head(words) \o concat(Tail(words))

Titles == {concat(ws) : ws \in UNION {[1..n -> Words] : n \in 0..MaxWords}}

Authors == {<<>>, Unknown, <<"I", " ", "u5c71", "u7530">>, <<"u540c", "u5b9a">>}

InitCategorize ==
    /\ processing_status = IdleStatus
    /\ threads = <<>>
    /\ temp_uploads = EmptyDict
    /\ response = None
    /\ users_json = None
    /\ data_dir = TRUE
    /\ mypages = EmptyDict
    /\ cli = None
    /\ call \in {[title |-> t, author |-> a, result |-> None] :
                     t \in Titles, a \in Authors}

CategorizeCall ==
    /\ call.result = None
    /\ call' = [call EXCEPT !.result =
                    Some(categorize_book(call.title, call.author))]
    /\ UNCHANGED <<processing_status, threads, temp_uploads, response,
                   users_json, data_dir, mypages, cli>>

NextCategorize == CategorizeCall

SpecCategorize == InitCategorize /\ [][NextCategorize]_vars

(***************************************************************************)
(* Properties of categorize_book (SpecCategorize)                          *)
(***************************************************************************)

\* keyword occurs in text at offset p when letters are compared without case
OccursNoCase(keyword, text, p) ==
    /\ p + Len(keyword) - 1 <= Len(text)
    /\ \A i \in 1..Len(keyword) :
           lower_char(text[p + i - 1]) = lower_char(keyword[i])

\* the categories, by their place in the table, with a keyword in text
Matching(text) ==
    {c \in 1..Len(category_keywords) :
        \E k \in 1..Len(category_keywords[c][2]), p \in 1..Len(text) :
            OccursNoCase(category_keywords[c][2][k], text, p)}

\* C11: categorize_book returns the earliest-declared category one of whose
\* keywords occurs, case-insensitively, in the title-and-author text, and
\* 'other' exactly when no keyword occurs; the text alone decides.
C11_EarliestCategoryWins ==
    call.result # None =>
        LET decided(matching) ==
                /\ matching = {} <=> call.result[1] = "other"
                /\ \A c \in matching :
                       (\A d \in matching : c <= d) =>
                           call.result[1] = category_keywords[c][1]
        IN  decided(Matching(call.title \o <<" ">> \o call.author))

\* a text with keywords of two categories, the one of the earlier category
\* spelled in another case than in the table, has been categorized
C11_Witness ==
    /\ call.result # None
    /\ LET seen(text, matching) ==
               /\ Cardinality(matching) >= 2
               /\ \E c \in matching :
                      /\ \A d \in matching : c <= d
                      /\ call.result[1] = category_keywords[c][1]
                      /\ \A k \in 1..Len(category_keywords[c][2]) :
                             ~Contains(text, category_keywords[c][2][k])
       IN  seen(call.title \o <<" ">> \o call.author,
                Matching(call.title \o <<" ">> \o call.author))

(***************************************************************************)
(* SpecExtract: extract_book_info on title_author cells of one to          *)
(* MaxSegments segments                                                    *)
(***************************************************************************)

MaxSegments == 3

Segments ==
    {<<"u5236", "u5fa1">>,
     <<"u6570", "u5b66", " ", ";", " ", "2", "e", "d">>,
     <<"a", ";", "b", ";", "c">>,
     <<"A", " ">>,
     <<"B", "/", "C">>,
     <<>>}

\* the segments with the separator between them
RECURSIVE separated(_)
separated(segments) ==
    IF Len(segments) = 1 THEN segments[1]
    ELSE segments[1] \o Separator \o separated(Tail(segments))

Cells ==
    {separated(s) : s \in UNION {[1..n -> Segments] : n \in 1..MaxSegments}}

InitExtract ==
    /\ processing_status = IdleStatus
    /\ threads = <<>>
    /\ temp_uploads = EmptyDict
    /\ response = None
    /\ users_json = None
    /\ data_dir = TRUE
    /\ mypages = EmptyDict
    /\ cli = None
    /\ call \in {[title_author |-> c, result |-> None] : c \in Cells}

ExtractCall ==
    /\ call.result = None
    /\ call' = [call EXCEPT !.result = Some(extract_book_info(call.title_author))]
    /\ UNCHANGED <<processing_status, threads, temp_uploads, response,
                   users_json, data_dir, mypages, cli>>

NextExtract == ExtractCall

SpecExtract == InitExtract /\ [][NextExtract]_vars

(***************************************************************************)
(* Properties of extract_book_info (SpecExtract)                           *)
(***************************************************************************)

\* where the separator occurs in s
SeparatorAt(s) == {i \in 1..Len(s) : OccursAt(Separator, s, i)}

\* what comes before the first separator, and everything after it
BeforeFirst(s) ==
    IF SeparatorAt(s) = {} THEN s
    ELSE Slice(s, 1, (CHOOSE i \in SeparatorAt(s) :
                          \A j \in SeparatorAt(s) : i <= j) - 1)

AfterFirst(s) ==
    Slice(s, (CHOOSE i \in SeparatorAt(s) : \A j \in SeparatorAt(s) : i <= j)
                 + Len(Separator), Len(s))

\* C12: the title is the first segment cut at its first semicolon; the
\* author is everything after the first separator, so nothing of a cell
\* with two or more separators is lost, or the 'unknown' sentinel when the
\* cell has no separator.
C12_AuthorIsAllRemainingSegments ==
    call.result # None =>
        /\ call.result[1].title = cut_semicolon(strip(BeforeFirst(call.title_author)))
        /\ call.result[1].author =
               IF SeparatorAt(call.title_author) = {} THEN Unknown
               ELSE strip(AfterFirst(call.title_author))

(***************************************************************************)
(* Properties of parse_tsv_file in the runs of generate_mypage.py (SpecGen)*)
(***************************************************************************)

\* the column names parse_tsv_file sets
Schema ==
    {"id", "book_id", "checkout_date", "return_date", "location",
     "classification", "title_author"}

\* 7 columns, or 8 whose 8th cell is empty in every row, in a file that can
\* be read and has rows
WellFormed(file) ==
    /\ file.readable
    /\ file.rows # <<>>
    /\ \/ file.ncols = 7
       \/ file.ncols = 8 /\ \A i \in 1..Len(file.col8) : file.col8[i]

\* the run has gone through parsing
CliParsed == cli # None /\ CliRun.pc \in {"write_html", "save", "exit"}

\* C13: parse_tsv_file succeeds exactly on a file of 7 columns, or of 8 with
\* an all-empty 8th, and its rows then carry the 7 named fields; on every
\* other file process_tsv_file returns False and the registry file and the
\* page are not written.
C13_ParseAcceptsSevenColumns ==
    CliParsed =>
        LET settled(file) ==
                IF WellFormed(file)
                THEN /\ CliRun.success # Some(FALSE)
                     /\ parse_tsv_file(file) # <<>>
                     /\ \A i \in 1..Len(parse_tsv_file(file)) :
                            DOMAIN parse_tsv_file(file)[i] = Schema
                ELSE /\ CliRun.pc = "exit"
                     /\ CliRun.success = Some(FALSE)
                     /\ ~CliRun.html_written
                     /\ ~CliRun.registry_written
                     /\ users_json = CliRun.registry_before
                     /\ CliRun.users_data[1] = load_users_data(users_json)
        IN  settled(SampleFiles[CliRun.tsv_path])

\* a run on the file whose 8th column is not all empty has ended, with a
\* user already in the registry
C13_Witness ==
    /\ CliParsed
    /\ CliRun.tsv_path = "eight_filled"
    /\ CliRun.success = Some(FALSE)
    /\ users_json # None
    /\ users_json[1].users # <<>>

(***************************************************************************)
(* SpecHtml: generate_mypage_html on profiles whose reading history has up *)
(* to MaxBooks books of four categories, one of them not in the table      *)
(***************************************************************************)

MaxBooks == 7

HistoryCategories == {"control-theory", "mathematics", "programming", "other"}

\* a book_entry of the category
EntryOf(category) ==
    [title |-> <<"t">>, author |-> Unknown, category |-> category,
     year |-> str_int(current_year), rating |-> 4,
     cover |-> generate_cover_url(<<"t">>, Unknown)]

\* a user_profile as create_user_profile builds it around the history
ProfileOf(categories) ==
    LET built(entries) ==
            [id |-> UserIdOf[1],
             name |-> <<"Amane Kubo">>,
             nameJa |-> <<"Amane Kubo">>,
             position |-> <<"M2">>,
             avatar |-> <<"avatar.png">>,
             email |-> UserIdOf[1] \o <<"@", "example.com">>,
             specializations |-> <<>>,
             stats |-> [totalBooks |-> Len(entries), thisYearBooks |-> Len(entries),
                        publications |-> 0, presentations |-> 0, datasets |-> 0,
                        coderepos |-> IF Len(entries) > 5 THEN 1 ELSE 0,
                        awards |-> 0],
             currentReading |->
                 IF entries = <<>> THEN None ELSE Some(with_progress(entries[1])),
             readingHistory |->
                 IF entries = <<>> THEN <<>>
                 ELSE <<with_progress(entries[1])>> \o Tail(entries),
             networkConnections |-> <<>>]
    IN  built([i \in 1..Len(categories) |-> EntryOf(categories[i])])

Histories == UNION {[1..n -> HistoryCategories] : n \in 0..MaxBooks}

InitHtml ==
    /\ processing_status = IdleStatus
    /\ threads = <<>>
    /\ temp_uploads = EmptyDict
    /\ response = None
    /\ users_json = None
    /\ data_dir = TRUE
    /\ mypages = EmptyDict
    /\ cli = None
    /\ call \in {[history |-> h, result |-> None] : h \in Histories}

HtmlCall ==
    /\ call.result = None
    /\ call' = [call EXCEPT !.result = Some(generate_mypage_html(
                    [users |-> <<>>, categories |-> CategoriesTopical,
                     network |-> None],
                    ProfileOf(call.history)))]
    /\ UNCHANGED <<processing_status, threads, temp_uploads, response,
                   users_json, data_dir, mypages, cli>>

NextHtml == HtmlCall

SpecHtml == InitHtml /\ [][NextHtml]_vars

(***************************************************************************)
(* Properties of generate_mypage_html (SpecHtml)                           *)
(***************************************************************************)

\* p is count / total * 100 rounded to the nearest integer, a half to even
IsRounded(p, count, total) ==
    /\ 2 * (100 * count - p * total) <= total
    /\ 2 * (p * total - 100 * count) <= total
    /\ (2 * (100 * count - p * total) = total
            \/ 2 * (p * total - 100 * count) = total) => p % 2 = 0

RECURSIVE SumOf(_)
SumOf(numbers) ==
    IF numbers = <<>> THEN 0 ELSE Head(numbers) + SumOf(Tail(numbers))

\* C14: for a non-empty reading history every displayed percentage is
\* round(count / total * 100), and the percentages of the donut chart, at
\* most 4 mapped categories, sum to at most 100.
C14_PercentagesSumToAtMost100 ==
    (call.result # None /\ call.history # <<>>) =>
        LET shown(donut_chart, h) ==
                /\ Len(donut_chart) <= 4
                /\ \A i \in 1..Len(donut_chart) :
                       \E c \in DOMAIN CategoriesTopical :
                           /\ CategoriesTopical[c].name = donut_chart[i].name
                           /\ IsRounded(donut_chart[i].percentage,
                                  Cardinality({j \in 1..Len(h) : h[j] = c}),
                                  Len(h))
                /\ SumOf([i \in 1..Len(donut_chart) |->
                              donut_chart[i].percentage]) <= 100
                /\ \A i \in 1..Len(donut_chart) : donut_chart[i].to <= 100
        IN  shown(call.result[1].donut, call.history)

\* the step is one of upload_file
UploadStep ==
    /\ response' # None
    /\ response'[1].handler = "upload_file"
    /\ \E req \in UploadRequests : upload_file(req)

\* what the thread was started with passes every check of upload_file
Acceptable(th) ==
    /\ <<>> \notin {th.user_id, th.user_name, th.position}
    /\ allowed_file(th.tsv_path)

\* C15: an upload that has to be rejected (a run in progress, no file, an
\* empty filename, an extension not allowed, or user_id, user_name or
\* position missing) is answered with an error, starts no thread, saves no
\* temporary file and leaves the status record as it was: an upload either
\* is answered 400 and changes nothing of these, or none of the reasons to
\* reject it holds.
C15_RejectedUploadChangesNothing ==
    [][UploadStep =>
          IF response'[1].status = 400
          THEN UNCHANGED <<threads, temp_uploads, processing_status>>
          ELSE /\ ~processing_status.is_processing
               /\ Len(threads') = Len(threads) + 1
               /\ Acceptable(threads'[Len(threads')])
               /\ threads'[Len(threads')].tsv_path \in DOMAIN temp_uploads'
               /\ temp_uploads'[threads'[Len(threads')].tsv_path].readable
      ]_vars

\* an upload has been rejected while a worker was in its subprocess, the
\* status busy and the uploaded file of the worker in place
C15_Witness ==
    /\ response # None
    /\ response[1].handler = "upload_file"
    /\ response[1].status = 400
    /\ processing_status.is_processing
    /\ processing_status.progress = 20
    /\ \E w \in DOMAIN threads :
           /\ threads[w].pc = "child"
           /\ threads[w].tsv_path \in DOMAIN temp_uploads

(***************************************************************************)
(* SpecFair: uploads of one user, resets and GET /api/status in any order, *)
(* every worker thread and its subprocess scheduled fairly                 *)
(***************************************************************************)

\* the uploads of the first user: every file, and one without a file
FairRequests ==
    {req \in CompleteRequests : req.user_id = UserIdOf[1]}
        \cup {Request(None, UserIdOf[1], <<"Amane Kubo">>, <<"M2">>, <<>>)}

\* GET /api/status: jsonify(processing_status)
get_status ==
    /\ response' = Response("get_status", 200, processing_status)
    /\ UNCHANGED <<processing_status, threads, temp_uploads, users_json,
                   data_dir, mypages, cli, call>>

\* a step of thread w or of its subprocess
worker_step(w) ==
    /\ w \in DOMAIN threads
    /\ \/ process_begin(w)
       \/ process_begin_error(w)
       \/ child_process(w)
       \/ child_write_html(w)
       \/ child_save(w)
       \/ process_result(w)
       \/ process_cleanup(w)
       \/ process_release(w)

NextFair ==
    \/ \E req \in FairRequests : upload_file(req)
    \/ \E w \in DOMAIN threads : worker_step(w)
    \/ reset_processing
    \/ get_status

SpecFair ==
    Init /\ [][NextFair]_vars /\ \A w \in 1..MaxUploads : WF_vars(worker_step(w))

(***************************************************************************)
(* Properties of the worker thread (SpecFair)                              *)
(***************************************************************************)

WorkerAt(w, places) == w \in DOMAIN threads /\ threads[w].pc \in places

\* C16: every worker that starts eventually sets progress to 100, on each
\* of its paths (an exception is recorded in the error field), and
\* afterwards sets is_processing to false, whatever requests interleave.
C16_WorkerReportsAndReleases ==
    /\ [][\A w \in DOMAIN threads :
             /\ (threads[w].pc \in {"start", "child"}
                     /\ threads'[w].pc = "finally") =>
                    /\ processing_status'.progress = 100
                    /\ threads'[w].result = None =>
                           processing_status'.error # None
             /\ (threads[w].pc # "done" /\ threads'[w].pc = "done") =>
                    /\ threads[w].pc = "sleep"
                    /\ ~processing_status'.is_processing
       ]_vars
    /\ \A w \in 1..MaxUploads :
           WorkerAt(w, {"start"}) ~> WorkerAt(w, {"finally"})
    /\ \A w \in 1..MaxUploads :
           WorkerAt(w, {"finally"}) ~> WorkerAt(w, {"done"})

\* a worker whose run ended in an error has returned: the status is at
\* progress 100 with the error recorded and no longer busy
C16_Witness ==
    /\ \E w \in DOMAIN threads : threads[w].pc = "done"
    /\ \A w \in DOMAIN threads : threads[w].pc = "done"
    /\ processing_status.progress = 100
    /\ processing_status.error # None
    /\ ~processing_status.is_processing

(***************************************************************************)
(* The reading history of a profile (SpecProfile)                          *)
(***************************************************************************)

\* the keys of a book_entry
BookEntryFields == {"title", "author", "category", "year", "rating", "cover"}

\* C17: setting the progress of currentReading leaves readingHistory alone:
\* every entry of readingHistory, the first included, has the keys title,
\* author, category, year, rating and cover and no progress.
C17_HistoryEntriesHaveNoProgress ==
    Returned =>
        \A i \in 1..Len(Profile.readingHistory) :
            DOMAIN Profile.readingHistory[i] = BookEntryFields

(***************************************************************************)
(* The registry under generation runs and deletes (Spec)                   *)
(***************************************************************************)

\* C18: the network graph of the registry file agrees with its users: the
\* node ids are the user ids, and both ends of every edge are users.
C18_NetworkAgreesWithUsers ==
    users_json # None =>
        LET agrees(doc) ==
                IF doc.network = None THEN doc.users = <<>>
                ELSE /\ {doc.network[1].nodes[i].id :
                            i \in 1..Len(doc.network[1].nodes)}
                            = RegisteredIds(users_json)
                     /\ \A i \in 1..Len(doc.network[1].edges) :
                            /\ doc.network[1].edges[i].from
                                   \in RegisteredIds(users_json)
                            /\ doc.network[1].edges[i].to
                                   \in RegisteredIds(users_json)
        IN  agrees(users_json[1])

\* C19: no update of the registry file is lost: the save of a run for one
\* user brings no other user into the file (a user deleted since the run
\* loaded the file stays deleted), and a delete takes nobody else out.
C19_NoLostRegistryUpdate ==
    [][/\ \A w \in DOMAIN threads :
              (Running(w, "save") /\ child_save(w)) =>
                  RegisteredIds(users_json') \ RegisteredIds(users_json)
                      \subseteq {Child(w).user_id}
       /\ \A id \in UserIds :
              (response' # None /\ response'[1].handler = "delete_user"
                   /\ delete_user(id)) =>
                  RegisteredIds(users_json) \ {id}
                      \subseteq RegisteredIds(users_json')
      ]_vars

====
